---- MODULE Spec2Model ----
(***************************************************************************)
(* The task manager API of app/: the in-memory TaskDatabase                *)
(* (app/database.py), the pydantic request models (app/models.py) and the  *)
(* FastAPI routes (app/main.py).                                           *)
(*                                                                         *)
(* A JSON body is a function from the keys it carries to their values, so  *)
(* DOMAIN body is pydantic's set of fields that were set and               *)
(* model_dump(exclude_unset=True) is the body itself.  JSON null / Python  *)
(* None is the value None below, which no input string equals.             *)
(* datetime.utcnow() is modelled by the ordinal of the clock reading.      *)
(***************************************************************************)
EXTENDS Integers, Sequences, FiniteSets, TLC

VARIABLES
    _tasks,     \* TaskDatabase._tasks
    _next_id,   \* TaskDatabase._next_id
    clock,      \* the number of utcnow() readings so far
    ret,        \* what the store method called last returned
    response,   \* the exchange the client has open: its request and the answer
    issued,     \* history: the ids create_task returned in this store lifetime
    lifetime,   \* history: how this lifetime began, "constructed" or "cleared"
    pc,         \* concurrent handlers: where each one is
    req,        \* concurrent handlers: the request of each
    local,      \* concurrent handlers: the local variable task of each
    result,     \* concurrent handlers: what each one's store call returned
    running     \* the handlers whose body has begun and not yet returned

vars == <<_tasks, _next_id, clock, ret, response, issued, lifetime,
          pc, req, local, result, running>>

\* The variables of the handlers in flight, untouched by sequential requests.
cvars == <<pc, req, local, result, running>>

(***************************************************************************)
(* Bounds of the model.                                                    *)
(***************************************************************************)
\* Sequential requests read utcnow() until MaxClock readings were made (the
\* samples make the first three).
MaxClock == 6

\* The number of requests in flight at the same time.
NHandlers == 3

(***************************************************************************)
(* Values.                                                                 *)
(***************************************************************************)
None == "<None>"

\* Optional[Task] without a task
NoTask == [none |-> TRUE]

\* A return value: its kind, the tasks it holds, its truth value.
Ret(kind, tasks, flag) == [kind |-> kind, tasks |-> tasks, flag |-> flag]

NotCalled == Ret("none", << >>, FALSE)

RetTask(task) == Ret("task", <<task>>, TRUE)

RetNone == Ret("task", << >>, FALSE)

RetList(tasks) == Ret("list", tasks, TRUE)

RetBool(b) == Ret("bool", << >>, b)

\* An exception left the method.
RetRaised == Ret("raised", << >>, FALSE)

RECURSIVE Repeat(_, _)
Repeat(s, n) == IF n = 0
                THEN ""
                ELSE LET half == Repeat(s, n \div 2)
                     IN  IF n % 2 = 0 THEN half \o half ELSE half \o half \o s

PENDING == "pending"

IN_PROGRESS == "in_progress"

COMPLETED == "completed"

TaskStatus == {PENDING, IN_PROGRESS, COMPLETED}

TitleMinLength == 1

TitleMaxLength == 100

DescriptionMaxLength == 500

\* A JSON body with no key.
EmptyBody == [f \in {} |-> None]

(***************************************************************************)
(* app/models.py: validation of a request body.                            *)
(***************************************************************************)
\* Mutant: the upper bound off by one.
TitleOk_off_by_one(v) == /\ v # None
                         /\ Len(v) >= TitleMinLength
                         /\ Len(v) <= TitleMaxLength + 1

\* Field(..., min_length=1, max_length=100) on a str
TitleOk(v) == /\ v # None
              /\ Len(v) >= TitleMinLength
              /\ Len(v) <= TitleMaxLength

\* Optional[str] = Field(None, max_length=500)
DescriptionOk(v) == v = None \/ Len(v) <= DescriptionMaxLength

\* TaskBase / TaskCreate: title required, status an enum member when given
TaskCreateValid(body) ==
    /\ "title" \in DOMAIN body
    /\ TitleOk(body.title)
    /\ "description" \in DOMAIN body => DescriptionOk(body.description)
    /\ "status" \in DOMAIN body => body.status \in TaskStatus

\* TaskUpdate: every field Optional, so an explicit null passes
TaskUpdateValid(body) ==
    /\ "title" \in DOMAIN body => (body.title = None \/ TitleOk(body.title))
    /\ "description" \in DOMAIN body => DescriptionOk(body.description)
    /\ "status" \in DOMAIN body => (body.status = None \/ body.status \in TaskStatus)

\* The TaskCreate object: the body with the defaults of TaskBase filled in.
TaskCreate(body) ==
    [title       |-> body.title,
     description |-> IF "description" \in DOMAIN body THEN body.description ELSE None,
     status      |-> IF "status" \in DOMAIN body THEN body.status ELSE PENDING]

(***************************************************************************)
(* The dict self._tasks: a sequence of Task records in insertion order.    *)
(***************************************************************************)
Keys(d) == {d[i].id : i \in 1..Len(d)}

DictGet(d, k) == IF k \in Keys(d)
                 THEN d[CHOOSE i \in 1..Len(d) : d[i].id = k]
                 ELSE NoTask

\* d[k] = v: in place when the key is there, appended otherwise
DictSet(d, k, v) == IF k \in Keys(d)
                    THEN [i \in 1..Len(d) |-> IF d[i].id = k THEN v ELSE d[i]]
                    ELSE Append(d, v)

\* del d[k]
DictDel(d, k) == SelectSeq(d, LAMBDA t : t.id # k)

(***************************************************************************)
(* app/database.py: TaskDatabase.  A method of the store is an action on   *)
(* _tasks, _next_id and clock that leaves its return value in ret.         *)
(***************************************************************************)
SampleTasks ==
    << [title       |-> "Set up CI/CD pipeline",
        description |-> "Configure GitHub Actions for automated testing and deployment",
        status      |-> IN_PROGRESS],
       [title       |-> "Write API documentation",
        description |-> "Create comprehensive API documentation with examples",
        status      |-> PENDING],
       [title       |-> "Add authentication",
        description |-> "Implement JWT token-based authentication",
        status      |-> PENDING] >>

\* Mutant: status=task_create.status left out, so the default applies.
NewTask_default_status(id, task_create, now) ==
    [id          |-> id,
     title       |-> task_create.title,
     description |-> task_create.description,
     status      |-> PENDING,
     created_at  |-> now,
     updated_at  |-> now]

\* Task(id=..., title=..., ..., created_at=now, updated_at=now)
NewTask(id, task_create, now) ==
    [id          |-> id,
     title       |-> task_create.title,
     description |-> task_create.description,
     status      |-> task_create.status,
     created_at  |-> now,
     updated_at  |-> now]

get_all_tasks == _tasks

get_task(task_id) == DictGet(_tasks, task_id)

\* Mutant: the comprehension without its condition.
get_tasks_by_status_unfiltered(status) == _tasks

get_tasks_by_status(status) == SelectSeq(_tasks, LAMBDA task : task.status = status)

get_task_count == Len(_tasks)

\* Mutant: the id taken from the number of stored tasks.
create_task_len_id(task_create) ==
    LET now  == clock + 1
        task == NewTask(Len(_tasks) + 1, task_create, now)
    IN  /\ clock' = now
        /\ _tasks' = DictSet(_tasks, task.id, task)
        /\ _next_id' = _next_id + 1
        /\ issued' = Append(issued, task.id)
        /\ ret' = RetTask(task)
        /\ UNCHANGED lifetime

create_task(task_create) ==
    LET now  == clock + 1
        task == NewTask(_next_id, task_create, now)
    IN  /\ clock' = now
        /\ _tasks' = DictSet(_tasks, _next_id, task)
        /\ _next_id' = _next_id + 1
        /\ issued' = Append(issued, task.id)
        /\ ret' = RetTask(task)
        /\ UNCHANGED lifetime

\* setattr(task, field, value) for every field of update_data
SetAttrs(task, update_data) ==
    [f \in DOMAIN task |-> IF f \in DOMAIN update_data THEN update_data[f] ELSE task[f]]

\* Mutant: updated_at refreshed without the test of update_data.
update_task_always_touch(task_id, task_update) ==
    IF task_id \notin Keys(_tasks)
    THEN /\ ret' = RetNone
         /\ UNCHANGED <<_tasks, _next_id, clock, issued, lifetime>>
    ELSE LET now     == clock + 1
             updated == [SetAttrs(DictGet(_tasks, task_id), task_update)
                            EXCEPT !.updated_at = now]
         IN  /\ clock' = now
             /\ _tasks' = DictSet(_tasks, task_id, updated)
             /\ ret' = RetTask(updated)
             /\ UNCHANGED <<_next_id, issued, lifetime>>

\* Mutant: model_dump() without exclude_unset, so unset fields arrive as None.
update_task_dump_all(task_id, task_update) ==
    IF task_id \notin Keys(_tasks)
    THEN /\ ret' = RetNone
         /\ UNCHANGED <<_tasks, _next_id, clock, issued, lifetime>>
    ELSE LET now         == clock + 1
             update_data == [f \in {"title", "description", "status"} |->
                                IF f \in DOMAIN task_update THEN task_update[f] ELSE None]
             updated     == [SetAttrs(DictGet(_tasks, task_id), update_data)
                                EXCEPT !.updated_at = now]
         IN  /\ clock' = now
             /\ _tasks' = DictSet(_tasks, task_id, updated)
             /\ ret' = RetTask(updated)
             /\ UNCHANGED <<_next_id, issued, lifetime>>

update_task(task_id, task_update) ==
    IF task_id \notin Keys(_tasks)
    THEN /\ ret' = RetNone
         /\ UNCHANGED <<_tasks, _next_id, clock, issued, lifetime>>
    ELSE LET task        == DictGet(_tasks, task_id)
             update_data == task_update
         IN  IF DOMAIN update_data # {}
             THEN LET now     == clock + 1
                      updated == [SetAttrs(task, update_data) EXCEPT !.updated_at = now]
                  IN  /\ clock' = now
                      /\ _tasks' = DictSet(_tasks, task_id, updated)
                      /\ ret' = RetTask(updated)
                      /\ UNCHANGED <<_next_id, issued, lifetime>>
             ELSE /\ ret' = RetTask(task)
                  /\ UNCHANGED <<_tasks, _next_id, clock, issued, lifetime>>

\* Mutant: self._tasks.pop(task_id, None) and True in every case.
delete_task_pop(task_id) ==
    /\ _tasks' = DictDel(_tasks, task_id)
    /\ ret' = RetBool(TRUE)
    /\ UNCHANGED <<_next_id, clock, issued, lifetime>>

delete_task(task_id) ==
    IF task_id \in Keys(_tasks)
    THEN /\ _tasks' = DictDel(_tasks, task_id)
         /\ ret' = RetBool(TRUE)
         /\ UNCHANGED <<_next_id, clock, issued, lifetime>>
    ELSE /\ ret' = RetBool(FALSE)
         /\ UNCHANGED <<_tasks, _next_id, clock, issued, lifetime>>

\* Mutant: the counter is not reset.
clear_all_tasks_keep_counter ==
    /\ _tasks' = << >>
    /\ issued' = << >>
    /\ lifetime' = "cleared"
    /\ UNCHANGED <<_next_id, clock, ret, response>>

clear_all_tasks ==
    /\ _tasks' = << >>
    /\ _next_id' = 1
    /\ issued' = << >>
    /\ lifetime' = "cleared"
    /\ UNCHANGED <<clock, ret, response>>

(***************************************************************************)
(* Requests the model sends.                                               *)
(***************************************************************************)
X100 == Repeat("x", TitleMaxLength)

X101 == Repeat("x", TitleMaxLength + 1)

X500 == Repeat("x", DescriptionMaxLength)

X501 == Repeat("x", DescriptionMaxLength + 1)

CreateBodies ==
    { [title |-> "A"],
      [title |-> X100, description |-> X500, status |-> COMPLETED],
      EmptyBody,
      [title |-> ""],
      [title |-> X101],
      [title |-> "A", description |-> X501],
      [title |-> "A", status |-> "bogus"] }

UpdateBodies ==
    { EmptyBody,
      [status |-> COMPLETED],
      [description |-> None],
      [status |-> None],
      [title |-> "B", description |-> "D", status |-> IN_PROGRESS],
      [title |-> ""],
      [title |-> X101],
      [description |-> X501],
      [status |-> "bogus"] }

\* The ids requests name: every id handed out so far and the next one.
TaskIds == 1.._next_id

StatusArgs == TaskStatus \cup {"bogus"}

(***************************************************************************)
(* app/main.py: the routes.  A response carries the request it answers     *)
(* (op, task_id, body, arg), the status code, the tasks of its JSON body   *)
(* (content) and its message (detail).  How FastAPI serialises a returned  *)
(* Task through response_model is not part of the model.                   *)
(***************************************************************************)
Response(op, task_id, body, arg, code, content, detail) ==
    [op |-> op, task_id |-> task_id, body |-> body, arg |-> arg,
     code |-> code, content |-> content, detail |-> detail]

\* No exchange is open: the client has read the last response.
NoResponse == Response("none", 0, EmptyBody, None, 0, << >>, "")

Idle == response = NoResponse

\* GET /tasks
get_tasks_route ==
    /\ ret' = RetList(get_all_tasks)
    /\ response' = Response("list", 0, EmptyBody, None, 200, ret'.tasks, "")
    /\ UNCHANGED <<_tasks, _next_id, clock, issued, lifetime>>

\* GET /tasks/{task_id}
get_task_route(task_id) ==
    LET task == get_task(task_id)
    IN  /\ ret' = IF task = NoTask THEN RetNone ELSE RetTask(task)
        /\ response' = IF ~ret'.flag
                       THEN Response("get", task_id, EmptyBody, None, 404, << >>, "not found")
                       ELSE Response("get", task_id, EmptyBody, None, 200, ret'.tasks, "")
        /\ UNCHANGED <<_tasks, _next_id, clock, issued, lifetime>>

\* POST /tasks
create_task_route(body) ==
    IF ~TaskCreateValid(body)
    THEN /\ response' = Response("create", 0, body, None, 422, << >>, "validation error")
         /\ ret' = NotCalled
         /\ UNCHANGED <<_tasks, _next_id, clock, issued, lifetime>>
    ELSE /\ clock < MaxClock
         /\ create_task(TaskCreate(body))
         /\ response' = Response("create", 0, body, None, 201, ret'.tasks, "")

\* PUT /tasks/{task_id}
update_task_route(task_id, body) ==
    IF ~TaskUpdateValid(body)
    THEN /\ response' = Response("update", task_id, body, None, 422, << >>, "validation error")
         /\ ret' = NotCalled
         /\ UNCHANGED <<_tasks, _next_id, clock, issued, lifetime>>
    ELSE /\ (task_id \in Keys(_tasks) /\ DOMAIN body # {}) => clock < MaxClock
         /\ update_task(task_id, body)
         /\ response' = IF ~ret'.flag
                        THEN Response("update", task_id, body, None, 404, << >>, "not found")
                        ELSE Response("update", task_id, body, None, 200, ret'.tasks, "")

\* DELETE /tasks/{task_id}
delete_task_route(task_id) ==
    /\ delete_task(task_id)
    /\ response' = IF ~ret'.flag
                   THEN Response("delete", task_id, EmptyBody, None, 404, << >>, "not found")
                   ELSE Response("delete", task_id, EmptyBody, None, 200, << >>,
                                 "deleted successfully")

\* GET /tasks/status/{task_status}
get_tasks_by_status_route(task_status) ==
    LET valid_statuses == {"pending", "in_progress", "completed"}
    IN  IF task_status \notin valid_statuses
        THEN /\ response' = Response("filter", 0, EmptyBody, task_status, 400, << >>,
                                     "Invalid status")
             /\ ret' = NotCalled
             /\ UNCHANGED <<_tasks, _next_id, clock, issued, lifetime>>
        ELSE /\ ret' = RetList(get_tasks_by_status(task_status))
             /\ response' = Response("filter", 0, EmptyBody, task_status, 200, ret'.tasks, "")
             /\ UNCHANGED <<_tasks, _next_id, clock, issued, lifetime>>

(***************************************************************************)
(* The state machine of sequential requests.                               *)
(***************************************************************************)
Handlers == 1..NHandlers

NoRequest == [op |-> "none", task_id |-> 0, body |-> EmptyBody]

\* db = TaskDatabase(): __init__ and the three create_task calls of
\* _init_sample_data
Init ==
    /\ _tasks = [i \in 1..Len(SampleTasks) |-> NewTask(i, SampleTasks[i], i)]
    /\ _next_id = Len(SampleTasks) + 1
    /\ clock = Len(SampleTasks)
    /\ issued = [i \in 1..Len(SampleTasks) |-> i]
    /\ lifetime = "constructed"
    /\ ret = NotCalled
    /\ response = NoResponse
    /\ pc = [h \in Handlers |-> "none"]
    /\ req = [h \in Handlers |-> NoRequest]
    /\ local = [h \in Handlers |-> << >>]
    /\ result = [h \in Handlers |-> NotCalled]
    /\ running = {}

\* The client (the tests' TestClient) sends one request at a time and reads
\* its response before it sends the next.
GetTasks == Idle /\ get_tasks_route /\ UNCHANGED cvars

GetTask == Idle /\ UNCHANGED cvars /\ \E task_id \in TaskIds : get_task_route(task_id)

CreateTask == Idle /\ UNCHANGED cvars /\ \E body \in CreateBodies : create_task_route(body)

UpdateTask ==
    /\ Idle
    /\ UNCHANGED cvars
    /\ \E task_id \in TaskIds : \E body \in UpdateBodies : update_task_route(task_id, body)

DeleteTask == Idle /\ UNCHANGED cvars /\ \E task_id \in TaskIds : delete_task_route(task_id)

GetTasksByStatus ==
    /\ Idle
    /\ UNCHANGED cvars
    /\ \E task_status \in StatusArgs : get_tasks_by_status_route(task_status)

\* The fixture's reset, a direct call between requests.
Clear == Idle /\ clear_all_tasks /\ UNCHANGED cvars

Receive ==
    /\ ~Idle
    /\ response' = NoResponse
    /\ ret' = NotCalled
    /\ UNCHANGED <<_tasks, _next_id, clock, issued, lifetime>>
    /\ UNCHANGED cvars

Next ==
    \/ GetTasks
    \/ GetTask
    \/ CreateTask
    \/ UpdateTask
    \/ DeleteTask
    \/ GetTasksByStatus
    \/ Clear
    \/ Receive

Spec == Init /\ [][Next]_vars

(***************************************************************************)
(* Requests in flight at the same time.  The handlers of app/main.py are   *)
(* coroutines (async def) whose bodies hold no await, and uvicorn.run      *)
(* drives them from one event loop: the loop enters a handler only when no *)
(* other one is inside its body.  The store methods are split at their     *)
(* statements, so that any other scheduling would show.                    *)
(***************************************************************************)
ConcCreateBodies == {[title |-> "A"], [title |-> "B", status |-> COMPLETED]}

ConcUpdateBodies == {[status |-> COMPLETED]}

\* A sample task and the first id a request creates.
ConcIds == {1, Len(SampleTasks) + 1}

ConcRequests ==
    [op : {"create"}, task_id : {0}, body : ConcCreateBodies]
    \cup [op : {"update"}, task_id : ConcIds, body : ConcUpdateBodies]
    \cup [op : {"delete"}, task_id : ConcIds, body : {EmptyBody}]

seq_vars == <<ret, response, lifetime>>

\* A client sends a request; it waits for the event loop.
Send(h, r) ==
    /\ pc[h] = "none"
    /\ pc' = [pc EXCEPT ![h] = "pending"]
    /\ req' = [req EXCEPT ![h] = r]
    /\ UNCHANGED <<_tasks, _next_id, clock, issued, local, result, running>>
    /\ UNCHANGED seq_vars

\* Mutant: handlers declared def, which FastAPI runs on a thread pool.
LoopFree_thread_pool == TRUE

\* The event loop is between handlers.
LoopFree == running = {}

\* The event loop enters the handler of a waiting request.
Dispatch(h) ==
    /\ pc[h] = "pending"
    /\ LoopFree
    /\ running' = running \cup {h}
    /\ pc' = [pc EXCEPT ![h] = req[h].op]
    /\ UNCHANGED <<_tasks, _next_id, clock, issued, req, local, result>>
    /\ UNCHANGED seq_vars

\* return: the handler leaves with the store's return value.
Return(h, value) ==
    /\ result' = [result EXCEPT ![h] = value]
    /\ pc' = [pc EXCEPT ![h] = "done"]
    /\ running' = running \ {h}

\* now = datetime.utcnow(); task = Task(id=self._next_id, ...)
create_task_build(h) ==
    /\ h \in running /\ pc[h] = "create"
    /\ clock' = clock + 1
    /\ local' = [local EXCEPT ![h] = <<NewTask(_next_id, TaskCreate(req[h].body), clock')>>]
    /\ pc' = [pc EXCEPT ![h] = "create_store"]
    /\ UNCHANGED <<_tasks, _next_id, issued, req, result, running>>
    /\ UNCHANGED seq_vars

\* self._tasks[self._next_id] = task
create_task_store(h) ==
    /\ h \in running /\ pc[h] = "create_store"
    /\ _tasks' = DictSet(_tasks, _next_id, local[h][1])
    /\ pc' = [pc EXCEPT ![h] = "create_bump"]
    /\ UNCHANGED <<_next_id, clock, issued, req, local, result, running>>
    /\ UNCHANGED seq_vars

\* self._next_id += 1; return task
create_task_bump(h) ==
    /\ h \in running /\ pc[h] = "create_bump"
    /\ _next_id' = _next_id + 1
    /\ issued' = Append(issued, local[h][1].id)
    /\ Return(h, RetTask(local[h][1]))
    /\ UNCHANGED <<_tasks, clock, req, local>>
    /\ UNCHANGED seq_vars

\* if task_id not in self._tasks: return None
update_task_check(h) ==
    /\ h \in running /\ pc[h] = "update"
    /\ IF req[h].task_id \notin Keys(_tasks)
       THEN Return(h, RetNone)
       ELSE pc' = [pc EXCEPT ![h] = "update_load"] /\ UNCHANGED <<result, running>>
    /\ UNCHANGED <<_tasks, _next_id, clock, issued, req, local>>
    /\ UNCHANGED seq_vars

\* task = self._tasks[task_id], a KeyError when the key has gone
update_task_load(h) ==
    /\ h \in running /\ pc[h] = "update_load"
    /\ IF req[h].task_id \notin Keys(_tasks)
       THEN Return(h, RetRaised) /\ UNCHANGED local
       ELSE /\ local' = [local EXCEPT ![h] = <<DictGet(_tasks, req[h].task_id)>>]
            /\ pc' = [pc EXCEPT ![h] = "update_apply"]
            /\ UNCHANGED <<result, running>>
    /\ UNCHANGED <<_tasks, _next_id, clock, issued, req>>
    /\ UNCHANGED seq_vars

\* the setattr loop and updated_at, on the Task object loaded (the dict
\* shows them while it still holds that object); return task
update_task_apply(h) ==
    /\ h \in running /\ pc[h] = "update_apply"
    /\ LET id      == req[h].task_id
           held    == IF id \in Keys(_tasks) THEN DictGet(_tasks, id) ELSE local[h][1]
           updated == [SetAttrs(held, req[h].body) EXCEPT !.updated_at = clock']
       IN  /\ clock' = clock + 1
           /\ _tasks' = IF id \in Keys(_tasks) THEN DictSet(_tasks, id, updated) ELSE _tasks
           /\ Return(h, RetTask(updated))
    /\ UNCHANGED <<_next_id, issued, req, local>>
    /\ UNCHANGED seq_vars

\* if task_id in self._tasks: ... else return False
delete_task_check(h) ==
    /\ h \in running /\ pc[h] = "delete"
    /\ IF req[h].task_id \in Keys(_tasks)
       THEN pc' = [pc EXCEPT ![h] = "delete_del"] /\ UNCHANGED <<result, running>>
       ELSE Return(h, RetBool(FALSE))
    /\ UNCHANGED <<_tasks, _next_id, clock, issued, req, local>>
    /\ UNCHANGED seq_vars

\* del self._tasks[task_id], a KeyError when the key has gone; return True
delete_task_del(h) ==
    /\ h \in running /\ pc[h] = "delete_del"
    /\ IF req[h].task_id \in Keys(_tasks)
       THEN _tasks' = DictDel(_tasks, req[h].task_id) /\ Return(h, RetBool(TRUE))
       ELSE UNCHANGED _tasks /\ Return(h, RetRaised)
    /\ UNCHANGED <<_next_id, clock, issued, req, local>>
    /\ UNCHANGED seq_vars

SendRequest == \E h \in Handlers : \E r \in ConcRequests : Send(h, r)

EnterHandler == \E h \in Handlers : Dispatch(h)

CreateBuild == \E h \in Handlers : create_task_build(h)

CreateStore == \E h \in Handlers : create_task_store(h)

CreateBump == \E h \in Handlers : create_task_bump(h)

UpdateCheck == \E h \in Handlers : update_task_check(h)

UpdateLoad == \E h \in Handlers : update_task_load(h)

UpdateApply == \E h \in Handlers : update_task_apply(h)

DeleteCheck == \E h \in Handlers : delete_task_check(h)

DeleteDel == \E h \in Handlers : delete_task_del(h)

NextConc ==
    \/ SendRequest
    \/ EnterHandler
    \/ CreateBuild
    \/ CreateStore
    \/ CreateBump
    \/ UpdateCheck
    \/ UpdateLoad
    \/ UpdateApply
    \/ DeleteCheck
    \/ DeleteDel

SpecConc == Init /\ [][NextConc]_vars

(***************************************************************************)
(* Helpers of the properties.                                              *)
(***************************************************************************)
Range(q) == {q[i] : i \in 1..Len(q)}

TaskFields == {"title", "description", "status"}

\* The last exchange is a request of kind op answered with code.
Answered(op, code) == response.op = op /\ response.code = code

\* The ids create_task handed out before the current lifetime's first request.
Preloaded == IF lifetime = "constructed" THEN Len(SampleTasks) ELSE 0

\* A body field that is a string breaking the constraint of app/models.py.
Violates(body) ==
    \/ /\ "title" \in DOMAIN body
       /\ body.title # None
       /\ (Len(body.title) = 0 \/ Len(body.title) > 100)
    \/ /\ "description" \in DOMAIN body
       /\ body.description # None
       /\ Len(body.description) > 500
    \/ /\ "status" \in DOMAIN body
       /\ body.status # None
       /\ body.status \notin {"pending", "in_progress", "completed"}

(***************************************************************************)
(* C1: within one store lifetime every create returns an id strictly       *)
(* greater than the id of every earlier create, so no id is handed out     *)
(* twice, also not the id of a task deleted since; and the id a create     *)
(* request answers with is the one handed out last.                        *)
(***************************************************************************)
C1_IdsStrictlyIncreasing ==
    /\ \A i, j \in 1..Len(issued) : i < j => issued[i] < issued[j]
    /\ Keys(_tasks) \subseteq Range(issued)
    /\ Answered("create", 201) => response.content[1].id = issued[Len(issued)]

\* A create answered after a task of this lifetime was deleted.
C1_Witness ==
    /\ Answered("create", 201)
    /\ \E id \in Range(issued) : id \notin Keys(_tasks) /\ id < response.content[1].id

(***************************************************************************)
(* C2: in every reachable state the status of every stored task is one of  *)
(* pending, in_progress, completed.                                        *)
(***************************************************************************)
C2_StatusAlwaysEnumerated ==
    \A i \in 1..Len(_tasks) : _tasks[i].status \in TaskStatus

(***************************************************************************)
(* C3, as claimed: on a freshly constructed store the k-th create request  *)
(* returns id k (1, then 2, then 3 after id 1 was deleted), with status    *)
(* pending when none is given.                                             *)
(***************************************************************************)
C3_FreshConstructedCountsFromOne ==
    (lifetime = "constructed" /\ Answered("create", 201)) =>
        /\ response.content[1].id = Len(issued) - Preloaded
        /\ "status" \notin DOMAIN response.body => response.content[1].status = PENDING

(***************************************************************************)
(* C3, amended: the k-th create request of a lifetime returns id k on a    *)
(* freshly cleared store and id 3 + k on a freshly constructed one, whose  *)
(* three sample tasks hold ids 1 to 3; deletions in between change         *)
(* neither, and the status is pending when none is given.                  *)
(***************************************************************************)
C3_KthCreateReturnsKAfterPreloaded ==
    Answered("create", 201) =>
        /\ response.content[1].id = Len(issued)
        /\ \A k \in 1..Len(issued) : issued[k] = k
        /\ lifetime = "cleared" => Len(issued) >= 1
        /\ lifetime = "constructed" => Len(issued) >= 4
        /\ response.content[1].id \in Keys(_tasks)
        /\ "status" \notin DOMAIN response.body => response.content[1].status = PENDING

\* Cleared store: ids 1 and 2 created, id 1 deleted, and the third create
\* (no status given) has just answered id 3.
C3_Witness ==
    /\ lifetime = "cleared"
    /\ Answered("create", 201)
    /\ "status" \notin DOMAIN response.body
    /\ response.content[1].id = 3
    /\ Keys(_tasks) = {2, 3}

(***************************************************************************)
(* C4: an update of an existing task whose body supplies no field returns  *)
(* the task and leaves every field of it, updated_at included, and every   *)
(* other task of the store unchanged.                                      *)
(***************************************************************************)
C4_EmptyUpdateChangesNothing ==
    [][(/\ response'.op = "update"
        /\ DOMAIN response'.body = {}
        /\ response'.task_id \in Keys(_tasks))
       => /\ ret' = RetTask(DictGet(_tasks, response'.task_id))
          /\ response'.code = 200
          /\ _tasks' = _tasks
          /\ _next_id' = _next_id
          /\ clock' = clock]_vars

\* An empty update answered for a task that an earlier update had touched.
C4_Witness ==
    /\ Answered("update", 200)
    /\ DOMAIN response.body = {}
    /\ ret.tasks[1].updated_at # ret.tasks[1].created_at
    /\ ret.tasks[1].updated_at < clock

(***************************************************************************)
(* C5: an update of an existing task whose body supplies a non-empty       *)
(* subset of title, description, status sets exactly the supplied fields   *)
(* to the supplied values (a null description becomes null, an absent one  *)
(* is kept), sets updated_at to a clock reading taken by the update, and   *)
(* leaves the other fields, id, created_at and all other tasks unchanged.  *)
(***************************************************************************)
C5_UpdateSetsExactlySuppliedFields ==
    [][(/\ response'.op = "update"
        /\ response'.code # 422
        /\ DOMAIN response'.body # {}
        /\ response'.task_id \in Keys(_tasks))
       => LET id   == response'.task_id
              body == response'.body
              old  == DictGet(_tasks, id)
              new  == DictGet(_tasks', id)
          IN  /\ \A f \in TaskFields :
                    new[f] = IF f \in DOMAIN body THEN body[f] ELSE old[f]
              /\ new.id = old.id
              /\ new.created_at = old.created_at
              /\ clock' > clock
              /\ new.updated_at = clock'
              /\ Len(_tasks') = Len(_tasks)
              /\ \A i \in 1..Len(_tasks) :
                    _tasks[i].id # id => _tasks'[i] = _tasks[i]
              /\ _next_id' = _next_id
              /\ ret' = RetTask(new)
              /\ response'.content = <<new>>
              /\ response'.code = 200]_vars

\* {"description": null} answered for a task that keeps its title and status.
C5_Witness ==
    /\ Answered("update", 200)
    /\ response.body = [description |-> None]
    /\ response.content[1].description = None
    /\ response.content[1].title = X100
    /\ response.content[1].status = COMPLETED

(***************************************************************************)
(* C6: for each of the three status values the filter returns exactly the  *)
(* tasks now in the store whose status is that value, each once; any other *)
(* status is answered 400 and returns no task.                             *)
(***************************************************************************)
C6_FilterReturnsExactlyMatching ==
    response.op = "filter" =>
        IF response.arg \in {"pending", "in_progress", "completed"}
        THEN /\ response.code = 200
             /\ Range(response.content)
                   = {t \in Range(_tasks) : t.status = response.arg}
             /\ Len(response.content) = Cardinality(Range(response.content))
        ELSE /\ response.code = 400
             /\ response.content = << >>
             /\ response.detail = "Invalid status"
             /\ ret = NotCalled

\* A filter answered after a delete and after an update changed a status.
C6_Witness ==
    /\ Answered("filter", 200)
    /\ response.arg = PENDING
    /\ Len(response.content) = 1
    /\ \E id \in Range(issued) : id \notin Keys(_tasks)
    /\ \E t \in Range(_tasks) : t.status = COMPLETED /\ t.updated_at > t.created_at
    /\ Len(_tasks) > 2

C8_DeleteAbsentIsNotFound ==
    [][(response'.op = "delete" /\ response'.task_id \notin Keys(_tasks))
       => /\ ret' = RetBool(FALSE)
          /\ response'.code = 404
          /\ _tasks' = _tasks
          /\ _next_id' = _next_id]_vars

\* Not found for an id that this lifetime had created and deleted.
C8_Witness ==
    /\ Answered("delete", 404)
    /\ response.task_id \in Range(issued)
    /\ response.task_id \notin Keys(_tasks)

(***************************************************************************)
(* C9: right after a valid create, fetching the returned id yields a task  *)
(* with the title, description and status supplied (description null and   *)
(* status pending when omitted) and created_at equal to updated_at.        *)
(***************************************************************************)
C9_CreateThenGetRoundTrip ==
    Answered("create", 201) =>
        LET body == response.body
            task == get_task(response.content[1].id)
        IN  /\ task # NoTask
            /\ <<task>> = response.content
            /\ task.title = body.title
            /\ task.description =
                  IF "description" \in DOMAIN body THEN body.description ELSE None
            /\ task.status = IF "status" \in DOMAIN body THEN body.status ELSE PENDING
            /\ task.created_at = task.updated_at

\* A create with all three fields, answered.
C9_Witness ==
    /\ Answered("create", 201)
    /\ response.body = [title |-> X100, description |-> X500, status |-> COMPLETED]
    /\ get_task(response.content[1].id).description = X500

(***************************************************************************)
(* C10: with several create, update and delete requests in flight at the   *)
(* same time, each request's store operation is atomic with respect to the *)
(* others: at most one handler is inside its body, no store method raises, *)
(* no two creates get the same id, and once all have returned the store    *)
(* holds every created task that no delete removed, as it was created or   *)
(* as an update of that id left it, under ids that are all distinct: n     *)
(* concurrent creates leave n new tasks with n distinct ids.               *)
(***************************************************************************)
Creates == {h \in Handlers : req[h].op = "create" /\ pc[h] = "done"}

Deleted == {req[h].task_id : h \in {g \in Handlers : /\ req[g].op = "delete"
                                                     /\ pc[g] = "done"
                                                     /\ result[g].flag}}

C10_ConcurrentOperationsAtomic ==
    /\ Cardinality(running) <= 1
    /\ \A h \in Handlers : result[h] # RetRaised
    /\ \A h, g \in Creates : h # g => result[h].tasks[1].id # result[g].tasks[1].id
    /\ Cardinality(Keys(_tasks)) = Len(_tasks)
    /\ (\A h \in Handlers : pc[h] \in {"none", "done"}) =>
          /\ \A h \in Creates :
                LET made == result[h].tasks[1]
                IN  made.id \notin Deleted =>
                       /\ made.id \in Keys(_tasks)
                       /\ DictGet(_tasks, made.id).title = req[h].body.title
                       /\ DictGet(_tasks, made.id).created_at = made.created_at
          /\ Len(_tasks) = Len(SampleTasks) + Cardinality(Creates) - Cardinality(Deleted)

\* One create has returned, a second is inside its body with its task
\* stored, and a third waits for the event loop: two new tasks, two new ids.
C10_Witness ==
    \E a, b, c \in Handlers :
        /\ pc[a] = "done" /\ req[a].op = "create"
        /\ pc[b] = "create_bump"
        /\ pc[c] = "pending" /\ req[c].op = "create"
        /\ result[a].tasks[1].id # local[b][1].id
        /\ {result[a].tasks[1].id, local[b][1].id} \subseteq Keys(_tasks)
        /\ Len(_tasks) = Len(SampleTasks) + 2

====
